---------------------------- MODULE Spec2Model ----------------------------
(***************************************************************************)
(* The structural JSON diff engine of supabasemm-server                    *)
(* (src/src/handlers/migrate/json_diff.rs, duplicated verbatim in          *)
(* src/src/handlers/migrate/preview_handler.rs), the request handler       *)
(* preview_handler that fetches the snapshots and calls the engine, and    *)
(* the OAuth handlers login_handler and callback_handler that put the      *)
(* access token into the session.                                          *)
(*                                                                         *)
(* A serde_json::Value is a record tagged by t:                            *)
(*   [t |-> "null"], [t |-> "bool", v |-> BOOLEAN], [t |-> "num", v |-> Int]*)
(*   [t |-> "str", v |-> STRING], [t |-> "arr", v |-> Seq(Value)],         *)
(*   [t |-> "obj", v |-> [keys -> Value]]                                  *)
(* so that Rust's derived PartialEq on Value is TLA+ equality.             *)
(* A Vec<DiffEntry> is a sequence of [key, source_value, dest_value].      *)
(***************************************************************************)
EXTENDS Integers, Sequences, FiniteSets, TLC

\* One call of the engine.
VARIABLES config_type, source_value, dest_value, result, pc

\* One request to preview_handler: its query, the session, its position
\* (hpc, cat_i, source_config, proc_i), its locals config_json and
\* project_config, its response, and what it did on the way: the HTTP
\* requests sent, the engine calls, the number of snapshots handed to the
\* JSON parser and the number of failed inserts reported on stderr.
\* The OAuth handlers use params, session, hpc, response and http_log in the
\* same way.
VARIABLES params, session, hpc, cat_i, source_config, config_json, proc_i,
          project_config, response, http_log, engine_log, parsed, stderr

evars == <<config_type, source_value, dest_value, result, pc>>

hvars == <<params, session, hpc, cat_i, source_config, config_json, proc_i,
           project_config, response, http_log, engine_log, parsed, stderr>>

vars == <<config_type, source_value, dest_value, result, pc,
          params, session, hpc, cat_i, source_config, config_json, proc_i,
          project_config, response, http_log, engine_log, parsed, stderr>>

-----------------------------------------------------------------------------
(* Bounds of the model.                                                    *)

MaxLen == 2      \* longest array drawn as an input
MaxNum == 2      \* numbers drawn as inputs are 1..MaxNum
MaxRequested == 2   \* most categories one preview request asks for

-----------------------------------------------------------------------------
(* serde_json::Value                                                       *)

JNull == [t |-> "null"]
JBool(b) == [t |-> "bool", v |-> b]
JNum(n) == [t |-> "num", v |-> n]
JStr(s) == [t |-> "str", v |-> s]
JArr(s) == [t |-> "arr", v |-> s]
JObj(f) == [t |-> "obj", v |-> f]

is_object(x) == x.t = "obj"
is_array(x) == x.t = "arr"

\* Every string the inputs use as an object key, in the order a
\* serde_json::Map (a BTreeMap<String, Value>) iterates: ascending byte order.
KeyOrder == <<"", "a", "b", "cfg", "id", "name", "v", "value">>

\* Every string the inputs use as a string value.
StrUniverse == <<"1", "MY_KEY", "SUPABASE_URL", "a", "b", "null">>

Reverse(s) == [i \in 1..Len(s) |-> s[Len(s) + 1 - i]]

\* Iteration orders of a std::collections::HashMap<String, &Value>: the order
\* is unspecified and differs from map to map, so every traversal of an
\* identity map is parameterised by one of these orders.
HashOrders == {StrUniverse, Reverse(StrUniverse)}

\* (key, value) iteration of a serde_json::Map: its keys in ascending order.
map_keys(m) == SelectSeq(KeyOrder, LAMBDA k : k \in DOMAIN m)

\* (id, value) iteration of a HashMap under the order ord.
hash_keys(m, ord) == SelectSeq(ord, LAMBDA k : k \in DOMAIN m)

RECURSIVE Flatten(_)
\* The concatenation of a sequence of sequences: the pushes of a loop, in order.
Flatten(ss) == IF ss = <<>> THEN <<>> ELSE Head(ss) \o Flatten(Tail(ss))

RECURSIVE Join(_, _)
Join(ss, sep) ==
    IF ss = <<>> THEN ""
    ELSE IF Len(ss) = 1 THEN ss[1]
    ELSE ss[1] \o sep \o Join(Tail(ss), sep)

\* A JSON string literal; no input string holds a character that needs an escape.
Quote(s) == "\"" \o s \o "\""

RECURSIVE to_string(_)
\* Value::to_string: compact JSON text.
to_string(x) ==
    CASE x.t = "null" -> "null"
      [] x.t = "bool" -> IF x.v THEN "true" ELSE "false"
      [] x.t = "num" -> ToString(x.v)
      [] x.t = "str" -> Quote(x.v)
      [] x.t = "arr" ->
            "[" \o Join([i \in 1..Len(x.v) |-> to_string(x.v[i])], ",") \o "]"
      [] x.t = "obj" ->
            LET ks == map_keys(x.v)
            IN "{" \o Join([i \in 1..Len(ks) |->
                              Quote(ks[i]) \o ":" \o to_string(x.v[ks[i]])], ",")
                   \o "}"

\* format_value rendering every number as the same text.
format_value_any_number(value) ==
    CASE value.t = "str" -> value.v
      [] value.t = "null" -> "null"
      [] value.t = "num" -> "number"
      [] value.t = "bool" -> IF value.v THEN "true" ELSE "false"
      [] OTHER -> to_string(value)

format_value(value) ==
    CASE value.t = "str" -> value.v
      [] value.t = "null" -> "null"
      [] value.t = "num" -> ToString(value.v)
      [] value.t = "bool" -> IF value.v THEN "true" ELSE "false"
      [] OTHER -> to_string(value)

DiffEntry(k, s, d) == [key |-> k, source_value |-> s, dest_value |-> d]

\* str::starts_with and str::contains
starts_with(s, p) == Len(s) >= Len(p) /\ SubSeq(s, 1, Len(p)) = p
contains(s, p) ==
    \E i \in 1..(Len(s) - Len(p) + 1) : SubSeq(s, i, i + Len(p) - 1) = p

SUPABASE_PREFIX == "SUPABASE_"

\* is_supabase_secret comparing the whole name with the prefix.
is_supabase_secret_exact(value) ==
    IF is_object(value) /\ "name" \in DOMAIN value.v
    THEN value.v["name"] = JStr(SUPABASE_PREFIX)
    ELSE FALSE

is_supabase_secret(value) ==
    IF is_object(value) /\ "name" \in DOMAIN value.v
    THEN IF value.v["name"].t = "str"
         THEN starts_with(value.v["name"].v, SUPABASE_PREFIX)
         ELSE FALSE
    ELSE FALSE

\* An element that to_id_map inserts: an object with a string `id`.
has_string_id(item) ==
    IF is_object(item) /\ "id" \in DOMAIN item.v
    THEN item.v["id"].t = "str"
    ELSE FALSE

\* to_id_map keeping the first element that bears an id (entry().or_insert).
to_id_map_first(arr) ==
    LET idx == {i \in 1..Len(arr) : has_string_id(arr[i])}
        ids == {arr[i].v["id"].v : i \in idx}
        first(id) == CHOOSE i \in idx :
                       /\ arr[i].v["id"].v = id
                       /\ \A j \in idx : arr[j].v["id"].v = id => i <= j
    IN [some |-> idx # {}, map |-> [id \in ids |-> arr[first(id)]]]

\* Option<HashMap<String, &Value>>: a later insert of the same id replaces
\* the earlier one, so each id maps to the last element that bears it.
to_id_map(arr) ==
    LET idx == {i \in 1..Len(arr) : has_string_id(arr[i])}
        ids == {arr[i].v["id"].v : i \in idx}
        last(id) == CHOOSE i \in idx :
                       /\ arr[i].v["id"].v = id
                       /\ \A j \in idx : arr[j].v["id"].v = id => j <= i
    IN [some |-> idx # {}, map |-> [id \in ids |-> arr[last(id)]]]

id_path(path, id) == path \o (IF path = "" THEN "" ELSE ".") \o "id:" \o id

field_path(path, key) == IF path = "" THEN key ELSE path \o "." \o key

RECURSIVE diff_values(_, _, _, _, _)

\* diff_by_id without its second loop: ids only in dest are not reported.
diff_by_id_no_additions(path, src_map, dst_map, so, do) ==
    LET sk == hash_keys(src_map, so)
    IN Flatten([i \in 1..Len(sk) |->
                  IF sk[i] \in DOMAIN dst_map
                  THEN diff_values(id_path(path, sk[i]), src_map[sk[i]],
                                   dst_map[sk[i]], so, do)
                  ELSE <<DiffEntry(id_path(path, sk[i]),
                                   format_value(src_map[sk[i]]), "null")>>])

\* diff_by_id with its two loops in the other order.
diff_by_id_additions_first(path, src_map, dst_map, so, do) ==
    LET sk == hash_keys(src_map, so)
        rest == [id \in (DOMAIN dst_map) \ (DOMAIN src_map) |-> dst_map[id]]
        dk == hash_keys(rest, do)
    IN [i \in 1..Len(dk) |->
          DiffEntry(id_path(path, dk[i]), "null", format_value(rest[dk[i]]))]
       \o Flatten([i \in 1..Len(sk) |->
                  IF sk[i] \in DOMAIN dst_map
                  THEN diff_values(id_path(path, sk[i]), src_map[sk[i]],
                                   dst_map[sk[i]], so, do)
                  ELSE <<DiffEntry(id_path(path, sk[i]),
                                   format_value(src_map[sk[i]]), "null")>>])

diff_by_id(path, src_map, dst_map, so, do) ==
    LET sk == hash_keys(src_map, so)
        rest == [id \in (DOMAIN dst_map) \ (DOMAIN src_map) |-> dst_map[id]]
        dk == hash_keys(rest, do)
    IN Flatten([i \in 1..Len(sk) |->
                  IF sk[i] \in DOMAIN dst_map
                  THEN diff_values(id_path(path, sk[i]), src_map[sk[i]],
                                   dst_map[sk[i]], so, do)
                  ELSE <<DiffEntry(id_path(path, sk[i]),
                                   format_value(src_map[sk[i]]), "null")>>])
       \o [i \in 1..Len(dk) |->
             DiffEntry(id_path(path, dk[i]), "null", format_value(rest[dk[i]]))]

\* diff_by_index without the `s != d` test on two objects.
diff_by_index_no_eq(path, src, dst, so, do) ==
    LET max_len == IF Len(src) >= Len(dst) THEN Len(src) ELSE Len(dst)
        item_path(i) == path \o "[" \o ToString(i) \o "]"
    IN Flatten([n \in 1..max_len |->
         LET i == n - 1
         IN IF n <= Len(src) /\ n <= Len(dst)
            THEN IF is_object(src[n]) /\ is_object(dst[n])
                 THEN <<DiffEntry(item_path(i), format_value(src[n]),
                                  format_value(dst[n]))>>
                 ELSE diff_values(item_path(i), src[n], dst[n], so, do)
            ELSE IF n <= Len(src)
                 THEN <<DiffEntry(item_path(i), format_value(src[n]), "null")>>
                 ELSE <<DiffEntry(item_path(i), "null", format_value(dst[n]))>>])

\* diff_by_index up to the shorter length: trailing elements are not reported.
diff_by_index_min_len(path, src, dst, so, do) ==
    LET min_len == IF Len(src) <= Len(dst) THEN Len(src) ELSE Len(dst)
        item_path(i) == path \o "[" \o ToString(i) \o "]"
    IN Flatten([n \in 1..min_len |->
         LET i == n - 1
         IN IF is_object(src[n]) /\ is_object(dst[n]) /\ src[n] # dst[n]
            THEN <<DiffEntry(item_path(i), format_value(src[n]),
                             format_value(dst[n]))>>
            ELSE IF ~is_object(src[n]) \/ ~is_object(dst[n])
                 THEN diff_values(item_path(i), src[n], dst[n], so, do)
                 ELSE <<>>])

\* diff_by_index recursing into two objects at the same index.
diff_by_index_recurse(path, src, dst, so, do) ==
    LET max_len == IF Len(src) >= Len(dst) THEN Len(src) ELSE Len(dst)
        item_path(i) == path \o "[" \o ToString(i) \o "]"
    IN Flatten([n \in 1..max_len |->
         LET i == n - 1
         IN IF n <= Len(src) /\ n <= Len(dst)
            THEN diff_values(item_path(i), src[n], dst[n], so, do)
            ELSE IF n <= Len(src)
                 THEN <<DiffEntry(item_path(i), format_value(src[n]), "null")>>
                 ELSE <<DiffEntry(item_path(i), "null", format_value(dst[n]))>>])

diff_by_index(path, src, dst, so, do) ==
    LET max_len == IF Len(src) >= Len(dst) THEN Len(src) ELSE Len(dst)
        item_path(i) == path \o "[" \o ToString(i) \o "]"
    IN Flatten([n \in 1..max_len |->
         LET i == n - 1
         IN IF n <= Len(src) /\ n <= Len(dst)
            THEN IF is_object(src[n]) /\ is_object(dst[n]) /\ src[n] # dst[n]
                 THEN <<DiffEntry(item_path(i), format_value(src[n]),
                                  format_value(dst[n]))>>
                 ELSE IF ~is_object(src[n]) \/ ~is_object(dst[n])
                      THEN diff_values(item_path(i), src[n], dst[n], so, do)
                      ELSE <<>>
            ELSE IF n <= Len(src)
                 THEN <<DiffEntry(item_path(i), format_value(src[n]), "null")>>
                 ELSE <<DiffEntry(item_path(i), "null", format_value(dst[n]))>>])

\* diff_arrays reconciling by identity only when both sides have ids, and by
\* index in every other case.
diff_arrays_index_unless_both(path, src, dst, so, do) ==
    LET src_map == to_id_map(src)
        dst_map == to_id_map(dst)
    IN IF src_map.some /\ dst_map.some
       THEN diff_by_id(path, src_map.map, dst_map.map, so, do)
       ELSE diff_by_index(path, src, dst, so, do)

diff_arrays(path, src, dst, so, do) ==
    LET src_map == to_id_map(src)
        dst_map == to_id_map(dst)
    IN CASE src_map.some /\ dst_map.some ->
              diff_by_id(path, src_map.map, dst_map.map, so, do)
         [] src_map.some /\ ~dst_map.some ->
              LET sk == hash_keys(src_map.map, so)
              IN [i \in 1..Len(sk) |->
                    DiffEntry(id_path(path, sk[i]),
                              format_value(src_map.map[sk[i]]), "null")]
         [] ~src_map.some /\ dst_map.some ->
              LET dk == hash_keys(dst_map.map, do)
              IN [i \in 1..Len(dk) |->
                    DiffEntry(id_path(path, dk[i]), "null",
                              format_value(dst_map.map[dk[i]]))]
         [] OTHER -> diff_by_index(path, src, dst, so, do)

\* diff_objects without its second loop: keys only in dest are not reported.
diff_objects_no_additions(path, src, dst, so, do) ==
    LET sk == map_keys(src)
    IN Flatten([i \in 1..Len(sk) |->
                  IF sk[i] \in DOMAIN dst
                  THEN diff_values(field_path(path, sk[i]), src[sk[i]],
                                   dst[sk[i]], so, do)
                  ELSE <<DiffEntry(field_path(path, sk[i]),
                                   format_value(src[sk[i]]), "null")>>])

diff_objects(path, src, dst, so, do) ==
    LET sk == map_keys(src)
        dk == SelectSeq(map_keys(dst), LAMBDA k : k \notin DOMAIN src)
    IN Flatten([i \in 1..Len(sk) |->
                  IF sk[i] \in DOMAIN dst
                  THEN diff_values(field_path(path, sk[i]), src[sk[i]],
                                   dst[sk[i]], so, do)
                  ELSE <<DiffEntry(field_path(path, sk[i]),
                                   format_value(src[sk[i]]), "null")>>])
       \o [i \in 1..Len(dk) |->
             DiffEntry(field_path(path, dk[i]), "null", format_value(dst[dk[i]]))]

diff_values(path, source, dest, so, do) ==
    CASE is_array(source) /\ is_array(dest) ->
              diff_arrays(path, source.v, dest.v, so, do)
      [] is_object(source) /\ is_object(dest) ->
              diff_objects(path, source.v, dest.v, so, do)
      [] OTHER ->
              IF source # dest
              THEN <<DiffEntry(IF path = "" THEN "root" ELSE path,
                               format_value(source), format_value(dest))>>
              ELSE <<>>

\* Result<T, ServerFnError>
Ok(x) == [tag |-> "Ok", val |-> x]
Err(e) == [tag |-> "Err", err |-> e]

\* Option<ProjectConfig>
None == [some |-> FALSE]
Some(x) == [some |-> TRUE, val |-> x]

ProjectConfig(n, d) == [name |-> n, diffs |-> d]

filter_secrets(arr) == SelectSeq(arr, LAMBDA x : ~is_supabase_secret(x))

\* calculate_diff filtering the source array only.
calculate_diff_src_only(ct, source, dest, so, do) ==
    IF ct = "Secrets" /\ is_array(source) /\ is_array(dest)
    THEN Ok(diff_values("", JArr(filter_secrets(source.v)), dest, so, do))
    ELSE Ok(diff_values("", source, dest, so, do))

\* calculate_diff matching the category without regard to case.
calculate_diff_any_case(ct, source, dest, so, do) ==
    IF ct \in {"Secrets", "secrets", "SECRETS"} /\ is_array(source) /\ is_array(dest)
    THEN Ok(diff_values("", JArr(filter_secrets(source.v)),
                        JArr(filter_secrets(dest.v)), so, do))
    ELSE Ok(diff_values("", source, dest, so, do))

\* calculate_diff rejecting two values of different JSON types.
calculate_diff_strict(ct, source, dest, so, do) ==
    IF source.t # dest.t
    THEN Err("type mismatch")
    ELSE Ok(diff_values("", source, dest, so, do))

calculate_diff(ct, source, dest, so, do) ==
    IF ct = "Secrets"
    THEN IF is_array(source) /\ is_array(dest)
         THEN Ok(diff_values("", JArr(filter_secrets(source.v)),
                             JArr(filter_secrets(dest.v)), so, do))
         ELSE Ok(diff_values("", source, dest, so, do))
    ELSE Ok(diff_values("", source, dest, so, do))

\* json_diff wrapping the records without the is_empty test.
json_diff_always_some(ct, source, dest, so, do) ==
    LET r == calculate_diff(ct, source, dest, so, do)
    IN IF r.tag = "Err" THEN r
       ELSE Ok(Some(ProjectConfig(ct, r.val)))

json_diff(ct, source, dest, so, do) ==
    LET r == calculate_diff(ct, source, dest, so, do)
    IN IF r.tag = "Err" THEN r         \* the `?` operator
       ELSE IF r.val = <<>> THEN Ok(None)
       ELSE Ok(Some(ProjectConfig(ct, r.val)))

-----------------------------------------------------------------------------
(* Inputs.  The two values of one call are drawn from the same family, so  *)
(* that each family can be rich in the shapes it is about.                 *)

Obj1(k1, v1) == JObj([k \in {k1} |-> v1])
Obj2(k1, v1, k2, v2) == JObj([k \in {k1, k2} |-> IF k = k1 THEN v1 ELSE v2])

Nums == {JNum(n) : n \in 1..MaxNum}

ArraysOver(E) == {JArr(s) : s \in UNION {[1..n -> E] : n \in 0..MaxLen}}

\* Scalars of every type (a string that reads like a number, one that reads
\* like null, one with the reserved prefix), and one small container of each
\* shape: this family holds the type mismatches.
Mixed ==
    Nums \cup {JNull, JBool(TRUE), JBool(FALSE), JStr("1"), JStr("null"),
               JStr("SUPABASE_URL"),
               JArr(<<>>), JObj(<<>>), JArr(<<JNum(1)>>), Obj1("a", JNum(1)),
               Obj1("name", JStr("SUPABASE_URL")),
               JArr(<<Obj2("id", JStr("a"), "v", JNum(1))>>),
               JArr(<<Obj2("id", JStr("a"), "v", JNum(1)), JNum(1)>>)}

\* Elements of identity-reconciled arrays: the id "a" in two versions (so
\* that an id can repeat with different content), the id "b", and an object
\* whose id is a number, which to_id_map passes over.
IdElems ==
    {Obj2("id", JStr("a"), "v", JNum(1)), Obj2("id", JStr("a"), "v", JNum(2)),
     Obj2("id", JStr("b"), "v", JNum(1)), Obj2("id", JNum(1), "v", JNum(1))}

\* Elements of secret lists: a reserved name, a user's secret, a user's
\* secret whose value holds the reserved prefix, and a reserved name on an
\* element that also bears an id.
SecretElems ==
    {Obj2("name", JStr("SUPABASE_URL"), "value", JNum(1)),
     Obj2("name", JStr("MY_KEY"), "value", JNum(1)),
     Obj2("name", JStr("MY_KEY"), "value", JStr("SUPABASE_URL")),
     Obj2("id", JStr("a"), "name", JStr("SUPABASE_URL"))}

FieldScalars == {JNum(1), JNum(2), JNull}

FlatKeys == {"", "a", "b"}

\* Objects whose values are scalars.
FlatObjects ==
    {JObj([k \in ks |-> f[k]]) :
        ks \in SUBSET FlatKeys, f \in [FlatKeys -> FieldScalars]}

NestedElems ==
    {Obj2("id", JStr("a"), "v", JNum(1)), Obj2("id", JStr("a"), "v", JNum(2)),
     Obj2("id", JStr("b"), "v", JArr(<<JNum(1)>>))}

\* Containers below an object key, so that paths are not empty.
Nested ==
    {Obj1("cfg", x) :
        x \in ArraysOver(NestedElems)
              \cup {JNum(1), Obj1("a", JNum(1)), Obj1("a", Obj1("a", JNum(2))),
                    JArr(<<JNum(1), JNum(2)>>), JArr(<<JNum(2)>>),
                    JArr(<<Obj1("a", JNum(1))>>), JArr(<<Obj1("a", JNum(2))>>)}}

\* Elements of arrays without objects: two numbers and two arrays.
PlainElems == {JNum(1), JNum(2), JArr(<<>>), JArr(<<JNum(1)>>)}

\* Objects with the empty key next to the key "a".
EmptyKeyObjects ==
    {Obj2("", Obj1("a", x), "a", y) : x \in Nums, y \in Nums}

Families ==
    <<Mixed, ArraysOver(IdElems), ArraysOver(SecretElems), FlatObjects, Nested,
      ArraysOver(PlainElems), EmptyKeyObjects>>

Categories == {"Secrets", "secrets", "Auth"}

-----------------------------------------------------------------------------

Pending == [tag |-> "Pending"]

-----------------------------------------------------------------------------
(* preview_handler (src/src/handlers/migrate/preview_handler.rs).           *)

UNAUTHORIZED == 401
INTERNAL_SERVER_ERROR == 500
BAD_REQUEST == 400
STATUS_OK == 200

\* PreviewError
Unauthorized == [e |-> "Unauthorized"]
ApiError(msg) == [e |-> "ApiError", msg |-> msg]
JsonError(err) == [e |-> "JsonError", msg |-> err]
SessionError(msg) == [e |-> "SessionError", msg |-> msg]

\* #[derive(Debug)] on PreviewError; no message holds a character that the
\* Debug form of a string escapes.
Debug(err) ==
    IF err.e = "Unauthorized" THEN "Unauthorized"
    ELSE err.e \o "(" \o Quote(err.msg) \o ")"

\* into_response with ApiError answered as a client error.
into_response_client_error(err) ==
    IF err.e = "Unauthorized"
    THEN [status |-> UNAUTHORIZED, error |-> "Unauthorized"]
    ELSE IF err.e = "ApiError"
    THEN [status |-> BAD_REQUEST, error |-> err.msg]
    ELSE IF err.e = "JsonError"
    THEN [status |-> BAD_REQUEST, error |-> "JSON error: " \o err.msg]
    ELSE [status |-> INTERNAL_SERVER_ERROR, error |-> "Session error: " \o err.msg]

\* The status and the `error` field of the body of an error response.
into_response(err) ==
    IF err.e = "Unauthorized"
    THEN [status |-> UNAUTHORIZED, error |-> "Unauthorized"]
    ELSE IF err.e = "ApiError"
    THEN [status |-> INTERNAL_SERVER_ERROR, error |-> err.msg]
    ELSE IF err.e = "JsonError"
    THEN [status |-> BAD_REQUEST, error |-> "JSON error: " \o err.msg]
    ELSE [status |-> INTERNAL_SERVER_ERROR, error |-> "Session error: " \o err.msg]

\* Ok(Json(PreviewResponse { configs }))
PreviewResponse(configs) == [status |-> STATUS_OK, configs |-> configs]

\* The five category blocks of preview_handler in program order: the name
\* pushed to config_json, the label of the error message, the URL suffix.
Services ==
    <<[name |-> "Auth", label |-> "auth", path |-> "/config/auth"],
      [name |-> "Postgrest", label |-> "postgrest", path |-> "/postgrest"],
      [name |-> "EdgeFunctions", label |-> "functions", path |-> "/functions"],
      [name |-> "Secrets", label |-> "secrets", path |-> "/secrets"],
      [name |-> "Postgres", label |-> "postgres",
       path |-> "/config/database/postgres"]>>

ServiceNames == {Services[i].name : i \in DOMAIN Services}

ACCESS_TOKEN_KEY == "supabase_access_token"

\* The session maps each key to None or Some(text).
SessionKeys ==
    {ACCESS_TOKEN_KEY, "oauth_data", "pkce_verifier_secret", "csrf_token_secret"}
    \cup ServiceNames

EmptySession == [k \in SessionKeys |-> None]

\* session.insert(key, value) that succeeds.
session_insert(sess, key, value) == [sess EXCEPT ![key] = Some(value)]

\* The snapshots the management API serves, as values and as texts, and a
\* text that is not JSON.
SnapshotValues == {JNum(1), JArr(<<>>)}
Malformed == "["
Texts == {to_string(v) : v \in SnapshotValues} \cup {Malformed}

\* serde_json::from_str on the texts above: the value whose text it is, or
\* the parser's error.
from_str(text) ==
    IF \E v \in SnapshotValues : to_string(v) = text
    THEN Ok(CHOOSE v \in SnapshotValues : to_string(v) = text)
    ELSE Err("EOF while parsing a list at line 1 column 1")

\* What the management API does with one GET: the request does not get
\* through, or a response arrives with a status and a body that can be read
\* as text or not.
ErrorStatuses == {404, 503}
Replies ==
    {[kind |-> "unreachable"]}
    \cup {[kind |-> "response", status |-> STATUS_OK, readable |-> TRUE,
           text |-> t] : t \in Texts}
    \cup {[kind |-> "response", status |-> st, readable |-> TRUE,
           text |-> "not found"] : st \in ErrorStatuses}
    \cup {[kind |-> "response", status |-> st, readable |-> FALSE, text |-> ""] :
             st \in {STATUS_OK} \cup ErrorStatuses}

\* What one call of mgmt_api_get meets: whether the session store answers,
\* and the reply of the management API.
Envs == {[session_get_ok |-> g, reply |-> r] : g \in BOOLEAN, r \in Replies}

is_success(status) == status >= 200 /\ status < 300

constructed_url(url) == "https://api.supabase.com/v1" \o url

\* mgmt_api_get sending its request without looking for the token.
mgmt_api_get_no_token_check(sess, url, env) ==
    IF env.reply.kind = "unreachable"
    THEN [sent |-> TRUE,
          result |-> Err(ApiError("Request failed: reqwest::Error"))]
    ELSE IF is_success(env.reply.status)
    THEN [sent |-> TRUE,
          result |-> IF env.reply.readable THEN Ok(env.reply.text)
                     ELSE Err(ApiError("Error reading response body as text: "
                                       \o "reqwest::Error"))]
    ELSE [sent |-> TRUE,
          result |-> Err(ApiError(
              "HTTP request failed with status " \o ToString(env.reply.status)
              \o ": " \o (IF env.reply.readable THEN env.reply.text
                          ELSE "Error reading response body: reqwest::Error")))]

\* mgmt_api_get: its result, and whether it sent its HTTP request.
mgmt_api_get(sess, url, env) ==
    IF ~env.session_get_ok
    THEN [sent |-> FALSE,
          result |-> Err(SessionError("Failed to get token from session: Error"))]
    ELSE IF ~sess[ACCESS_TOKEN_KEY].some
    THEN [sent |-> FALSE, result |-> Err(Unauthorized)]
    ELSE IF env.reply.kind = "unreachable"
    THEN [sent |-> TRUE,
          result |-> Err(ApiError("Request failed: reqwest::Error"))]
    ELSE IF is_success(env.reply.status)
    THEN [sent |-> TRUE,
          result |-> IF env.reply.readable THEN Ok(env.reply.text)
                     ELSE Err(ApiError("Error reading response body as text: "
                                       \o "reqwest::Error"))]
    ELSE [sent |-> TRUE,
          result |-> Err(ApiError(
              "HTTP request failed with status " \o ToString(env.reply.status)
              \o ": " \o (IF env.reply.readable THEN env.reply.text
                          ELSE "Error reading response body: reqwest::Error")))]

\* next_requested without the last category block.
next_requested_but_last(i) ==
    IF \E j \in i..(Len(Services) - 1) : Services[j].name \in params.requested
    THEN CHOOSE j \in i..(Len(Services) - 1) :
            /\ Services[j].name \in params.requested
            /\ \A k \in i..(j - 1) : Services[k].name \notin params.requested
    ELSE Len(Services) + 1

\* The first category block from the i-th on whose flag is set
\* (params.<category>.unwrap_or(false)); one past the last block if none.
next_requested(i) ==
    IF \E j \in i..Len(Services) : Services[j].name \in params.requested
    THEN CHOOSE j \in i..Len(Services) :
            /\ Services[j].name \in params.requested
            /\ \A k \in i..(j - 1) : Services[k].name \notin params.requested
    ELSE Len(Services) + 1

\* on_insert_error returning the error to the caller.
on_insert_error_propagate(e) == "return"

\* What the processing loop does when session.insert returns Err(e): it
\* writes a line to stderr and goes on.
on_insert_error(e) == "continue"

\* The handler's variables while no request is being served.
HandlerIdle ==
    /\ params = [source_id |-> "", dest_id |-> "", requested |-> {}]
    /\ session = EmptySession
    /\ hpc = "idle"
    /\ cat_i = 0
    /\ source_config = None
    /\ config_json = <<>>
    /\ proc_i = 0
    /\ project_config = <<>>
    /\ response = Pending
    /\ http_log = <<>>
    /\ engine_log = <<>>
    /\ parsed = 0
    /\ stderr = 0

Init ==
    /\ config_type \in Categories
    /\ \E f \in DOMAIN Families :
          /\ source_value \in Families[f]
          /\ dest_value \in Families[f]
    /\ result = Pending
    /\ pc = "call"
    /\ HandlerIdle

JsonDiff ==
    /\ pc = "call"
    /\ \E so \in HashOrders, do \in HashOrders :
          result' = json_diff(config_type, source_value, dest_value, so, do)
    /\ pc' = "done"
    /\ UNCHANGED <<config_type, source_value, dest_value>>
    /\ UNCHANGED hvars

Next == JsonDiff

Spec == Init /\ [][Next]_vars

-----------------------------------------------------------------------------
(* One preview request.                                                    *)

\* A request arrives: its query asks for at most MaxRequested categories, and
\* the session holds an access token or none.
PreviewInit ==
    /\ config_type = "Auth" /\ source_value = JNull /\ dest_value = JNull
    /\ result = Pending /\ pc = "idle"
    /\ params \in {[source_id |-> "p1", dest_id |-> "p2", requested |-> r] :
                     r \in {q \in SUBSET ServiceNames :
                               Cardinality(q) <= MaxRequested}}
    /\ session \in {EmptySession,
                    [EmptySession EXCEPT ![ACCESS_TOKEN_KEY] = Some("token")]}
    /\ cat_i = next_requested(1)
    /\ hpc = IF cat_i > Len(Services) THEN "process" ELSE "fetch"
    /\ source_config = None
    /\ config_json = <<>>
    /\ proc_i = 1
    /\ project_config = <<>>
    /\ response = Pending
    /\ http_log = <<>>
    /\ engine_log = <<>>
    /\ parsed = 0
    /\ stderr = 0

\* One call of mgmt_api_get in the block of category cat_i, for the source
\* project first and the dest project second, and what the handler does with
\* its result: any error is returned as an ApiError, the second text
\* completes the block's entry of config_json.
Fetch ==
    /\ hpc = "fetch"
    /\ \E env \in Envs :
          LET svc == Services[cat_i]
              project == IF source_config.some THEN params.dest_id
                         ELSE params.source_id
              url == "/projects/" \o project \o svc.path
              r == mgmt_api_get(session, url, env)
              nxt == next_requested(cat_i + 1)
          IN /\ http_log' = IF r.sent
                            THEN Append(http_log, [url |-> constructed_url(url),
                                                   reply |-> env.reply])
                            ELSE http_log
             /\ IF r.result.tag = "Err"
                THEN /\ response' = into_response(ApiError(
                            "Failed to get " \o svc.label \o " config: "
                            \o Debug(r.result.err)))
                     /\ hpc' = "done"
                     /\ UNCHANGED <<cat_i, source_config, config_json>>
                ELSE /\ UNCHANGED response
                     /\ IF ~source_config.some
                        THEN /\ source_config' = Some(r.result.val)
                             /\ UNCHANGED <<cat_i, config_json, hpc>>
                        ELSE /\ config_json' =
                                  Append(config_json,
                                         <<svc.name, source_config.val,
                                           r.result.val>>)
                             /\ source_config' = None
                             /\ cat_i' = nxt
                             /\ hpc' = IF nxt > Len(Services) THEN "process"
                                       ELSE "fetch"
    /\ UNCHANGED <<params, session, proc_i, project_config, engine_log, parsed,
                   stderr>>
    /\ UNCHANGED evars

\* One turn of the processing loop on the entry proc_i of config_json: parse
\* the source text, parse the dest text, call the engine, keep its result if
\* it is Some, store the source text in the session.
Process ==
    /\ hpc = "process"
    /\ proc_i <= Len(config_json)
    /\ \E so \in HashOrders, do \in HashOrders, insert_ok \in BOOLEAN :
          LET service == config_json[proc_i][1]
              source_json == config_json[proc_i][2]
              dest_json == config_json[proc_i][3]
              source == from_str(source_json)
              dest == from_str(dest_json)
              r == json_diff(service, source.val, dest.val, so, do)
              fail(resp) ==
                  /\ response' = resp
                  /\ hpc' = "done"
                  /\ UNCHANGED <<proc_i, project_config, session, stderr>>
          IN IF source.tag = "Err"
             THEN /\ parsed' = parsed + 1
                  /\ UNCHANGED engine_log
                  /\ fail(into_response(JsonError(source.err)))
             ELSE IF dest.tag = "Err"
             THEN /\ parsed' = parsed + 2
                  /\ UNCHANGED engine_log
                  /\ fail(into_response(JsonError(dest.err)))
             ELSE /\ parsed' = parsed + 2
                  /\ engine_log' = Append(engine_log, service)
                  /\ IF r.tag = "Err"
                     THEN fail(into_response(r.err))
                     ELSE /\ project_config' =
                               IF r.val.some
                               THEN Append(project_config, r.val.val)
                               ELSE project_config
                          /\ IF insert_ok
                             THEN /\ session' = session_insert(session, service,
                                                               source_json)
                                  /\ proc_i' = proc_i + 1
                                  /\ UNCHANGED <<stderr, response, hpc>>
                             ELSE IF on_insert_error("Error") = "continue"
                             THEN /\ stderr' = stderr + 1
                                  /\ proc_i' = proc_i + 1
                                  /\ UNCHANGED <<session, response, hpc>>
                             ELSE /\ response' = into_response(
                                                    SessionError("Error"))
                                  /\ hpc' = "done"
                                  /\ UNCHANGED <<session, stderr, proc_i>>
    /\ UNCHANGED <<params, cat_i, source_config, config_json, http_log>>
    /\ UNCHANGED evars

\* After the loop: the successful response with the collected configs.
Respond ==
    /\ hpc = "process"
    /\ proc_i > Len(config_json)
    /\ response' = PreviewResponse(project_config)
    /\ hpc' = "done"
    /\ UNCHANGED <<params, session, cat_i, source_config, config_json, proc_i,
                   project_config, http_log, engine_log, parsed, stderr>>
    /\ UNCHANGED evars

PreviewNext == Fetch \/ Process \/ Respond

PreviewSpec == PreviewInit /\ [][PreviewNext]_vars

-----------------------------------------------------------------------------
(* login_handler and callback_handler (src/src/handlers/oauth/).           *)

OAuthSessionData(pkce, csrf) ==
    [pkce_verifier_secret |-> pkce, csrf_token_secret |-> csrf]

\* The secrets login_handler draws at random, and the values a callback's
\* `state` parameter takes.
Verifiers == {"v1", "v2"}
CsrfSecrets == {"s1", "s2"}

\* Option<String> over a set of strings.
OptionOf(S) == {None} \cup {Some(x) : x \in S}

\* Redirect::to(url) and Html(text)
Redirect(url) == [redirect |-> url]
Html(text) == [html |-> text]

\* The authorize URL of login_handler, with the two parameters that depend
\* on the drawn secrets.
authorize_url(csrf, challenge) ==
    "https://api.supabase.com/v1/oauth/authorize?response_type=code&state="
    \o csrf \o "&code_challenge=" \o challenge \o "&code_challenge_method=S256"

\* PkceCodeChallenge of a verifier; distinct verifiers, distinct challenges.
S256(verifier) == "S256-" \o verifier

\* What the token endpoint does with the POST: no response, a status that is
\* not a success, a success whose body is not a TokenResponse, or a
\* TokenResponse with an access token and possibly a refresh token.
TokenReplies ==
    {[kind |-> "unreachable"],
     [kind |-> "response", status |-> 400, parsable |-> FALSE],
     [kind |-> "response", status |-> STATUS_OK, parsable |-> FALSE]}
    \cup {[kind |-> "response", status |-> STATUS_OK, parsable |-> TRUE,
           access_token |-> "fresh", refresh_token |-> r] :
             r \in OptionOf({"refresh"})}

\* What one call of callback_handler meets: which session operations
\* succeed, and the reply of the token endpoint.
CallbackEnvs ==
    {[get_oauth_ok |-> a, get_pkce_ok |-> b, get_csrf_ok |-> c,
      remove_ok |-> d, insert_ok |-> e, reply |-> r] :
        a \in BOOLEAN, b \in BOOLEAN, c \in BOOLEAN, d \in BOOLEAN,
        e \in BOOLEAN, r \in TokenReplies}

\* state_matches accepting every `state` parameter.
state_matches_any(original_csrf_secret, state) == TRUE

\* The check of the callback's `state` parameter against the CSRF secret.
state_matches(original_csrf_secret, state) == original_csrf_secret = state

\* callback_handler on the session sess with the query q: the session it
\* leaves, its response, and the token requests it sent.
callback_handler(sess, q, env) ==
    LET stored == IF env.get_oauth_ok THEN sess["oauth_data"] ELSE None
        pkce_verifier == IF env.get_pkce_ok THEN sess["pkce_verifier_secret"]
                         ELSE None
        csrf_token == IF env.get_csrf_ok THEN sess["csrf_token_secret"]
                      ELSE None
        oauth_data ==
            IF stored.some THEN stored
            ELSE IF pkce_verifier.some /\ csrf_token.some
                 THEN Some(OAuthSessionData(pkce_verifier, csrf_token))
                 ELSE None
        removed == IF env.remove_ok THEN [sess EXCEPT !["oauth_data"] = None]
                   ELSE sess
        error(s, text) == [session |-> s, response |-> Html(text),
                           requests |-> <<>>]
        post(data) ==
            [url |-> "https://api.supabase.com/v1/oauth/token",
             form |-> [code |-> q.code,
                       code_verifier |-> data.pkce_verifier_secret.val,
                       grant_type |-> "authorization_code"],
             reply |-> env.reply]
        exchange(data) ==
            IF env.reply.kind = "unreachable"
            THEN [session |-> removed,
                  response |-> Html("Failed to exchange token"),
                  requests |-> <<post(data)>>]
            ELSE IF ~is_success(env.reply.status)
            THEN [session |-> removed,
                  response |-> Html("Failed to exchange token: HTTP "
                                    \o ToString(env.reply.status)),
                  requests |-> <<post(data)>>]
            ELSE IF ~env.reply.parsable
            THEN [session |-> removed,
                  response |-> Html("Failed to parse token response"),
                  requests |-> <<post(data)>>]
            ELSE IF ~env.insert_ok
            THEN [session |-> removed,
                  response |-> [panic |-> "Failed to store access token in session"],
                  requests |-> <<post(data)>>]
            ELSE [session |-> session_insert(removed, ACCESS_TOKEN_KEY,
                                             env.reply.access_token),
                  response |-> Html("Authentication successful!"),
                  requests |-> <<post(data)>>]
    IN IF ~oauth_data.some
       THEN error(sess, "No session data found")
       ELSE IF ~oauth_data.val.pkce_verifier_secret.some
       THEN error(removed, "No PKCE verifier found in session")
       ELSE IF ~oauth_data.val.csrf_token_secret.some
       THEN error(removed, "No CSRF token found in session")
       ELSE IF ~state_matches(oauth_data.val.csrf_token_secret.val, q.state)
       THEN error(removed, "CSRF token mismatch")
       ELSE exchange(oauth_data.val)

\* The preview_handler's own variables while an OAuth handler runs.
PreviewIdle ==
    /\ cat_i = 0
    /\ source_config = None
    /\ config_json = <<>>
    /\ proc_i = 0
    /\ project_config = <<>>
    /\ engine_log = <<>>
    /\ parsed = 0
    /\ stderr = 0

\* A browser session before a callback arrives. The session store outlives
\* the handlers: it holds an access token or none, an oauth_data entry or
\* none (either field of which may be None), and possibly the two separate
\* keys that callback_handler falls back to.
OAuthInit ==
    /\ config_type = "Auth" /\ source_value = JNull /\ dest_value = JNull
    /\ result = Pending /\ pc = "idle"
    /\ params \in {[code |-> "code", state |-> st] : st \in CsrfSecrets}
    /\ \E token \in OptionOf({"token"}),
          data \in OptionOf({OAuthSessionData(p, c) :
                               p \in OptionOf({"v1"}), c \in OptionOf(CsrfSecrets)}),
          pkce \in OptionOf({"v1"}),
          csrf \in OptionOf(CsrfSecrets) :
            session = [k \in SessionKeys |->
                         IF k = ACCESS_TOKEN_KEY THEN token
                         ELSE IF k = "oauth_data" THEN data
                         ELSE IF k = "pkce_verifier_secret" THEN pkce
                         ELSE IF k = "csrf_token_secret" THEN csrf
                         ELSE None]
    /\ hpc = "oauth"
    /\ response = Pending
    /\ http_log = <<>>
    /\ PreviewIdle

\* login_handler: with an access token in the session it redirects to the
\* projects page; otherwise it draws a verifier and a CSRF secret, stores
\* them as oauth_data (a failure is only reported) and redirects to the
\* authorize URL.
Login ==
    /\ hpc = "oauth"
    /\ \E get_ok \in BOOLEAN, insert_ok \in BOOLEAN,
          pkce_verifier \in Verifiers, csrf_token \in CsrfSecrets :
          IF get_ok /\ session[ACCESS_TOKEN_KEY].some
          THEN /\ response' = Redirect("/connect-supabase/projects")
               /\ UNCHANGED session
          ELSE /\ session' =
                    IF insert_ok
                    THEN session_insert(session, "oauth_data",
                                        OAuthSessionData(Some(pkce_verifier),
                                                         Some(csrf_token)))
                    ELSE session
               /\ response' = Redirect(authorize_url(csrf_token,
                                                     S256(pkce_verifier)))
    /\ UNCHANGED <<params, hpc, http_log, cat_i, source_config, config_json,
                   proc_i, project_config, engine_log, parsed, stderr>>
    /\ UNCHANGED evars

\* callback_handler, from the arrival of the callback to its response.
Callback ==
    /\ hpc = "oauth"
    /\ \E env \in CallbackEnvs :
          LET r == callback_handler(session, params, env)
          IN /\ session' = r.session
             /\ response' = r.response
             /\ http_log' = http_log \o r.requests
    /\ hpc' = "done"
    /\ UNCHANGED <<params, cat_i, source_config, config_json, proc_i,
                   project_config, engine_log, parsed, stderr>>
    /\ UNCHANGED evars

OAuthNext == Login \/ Callback

OAuthSpec == OAuthInit /\ [][OAuthNext]_vars

-----------------------------------------------------------------------------
(* Properties.                                                             *)

Done == pc = "done"

\* The change records of the finished call (none when it returned None).
Diffs ==
    IF result.tag = "Ok" /\ result.val.some THEN result.val.val.diffs ELSE <<>>

\* The records of a call on other inputs, under one fixed iteration order.
Records(ct, s, d) == calculate_diff(ct, s, d, StrUniverse, StrUniverse).val

Range(s) == {s[i] : i \in 1..Len(s)}

Count(s, r) == Cardinality({i \in 1..Len(s) : s[i] = r})

\* The same records, each as often, in any order.
SameRecords(s1, s2) ==
    /\ Len(s1) = Len(s2)
    /\ \A r \in Range(s1) : Count(s1, r) = Count(s2, r)

BothArrays == is_array(source_value) /\ is_array(dest_value)

\* The pre-filter applies to this call.
PreFiltered == config_type = "Secrets" /\ BothArrays

\* C1: comparing a value with itself yields no result (None), whatever the
\* category and whatever the shape of the value.
C1_Reflexive ==
    (Done /\ source_value = dest_value) => result = Ok(None)

\* C1's case: a value compared with itself that is an array mixing elements
\* with a string id and elements without.
C1_Witness ==
    /\ Done /\ source_value = dest_value /\ result = Ok(None)
    /\ is_array(source_value)
    /\ \E i, j \in 1..Len(source_value.v) :
          /\ has_string_id(source_value.v[i])
          /\ ~has_string_id(source_value.v[j])

\* C1's case on the index fallback: an array of objects without ids.
C1_WitnessIndex ==
    /\ Done /\ source_value = dest_value /\ result = Ok(None)
    /\ is_array(source_value) /\ Len(source_value.v) > 0
    /\ \A i \in 1..Len(source_value.v) :
          is_object(source_value.v[i]) /\ ~has_string_id(source_value.v[i])

\* The element of arr that an identity map built from arr holds for id: the
\* last one that bears it.
LastBearing(arr, id) ==
    LET at == {i \in 1..Len(arr) :
                  /\ arr[i].t = "obj"
                  /\ "id" \in DOMAIN arr[i].v
                  /\ arr[i].v["id"] = JStr(id)}
    IN arr[CHOOSE i \in at : \A j \in at : j <= i]

StringIds(arr) ==
    {arr[i].v["id"].v :
        i \in {j \in 1..Len(arr) :
                  /\ arr[j].t = "obj"
                  /\ "id" \in DOMAIN arr[j].v
                  /\ arr[j].v["id"].t = "str"}}

RECURSIVE Canon(_)
\* A value with every array that holds an object with a string id replaced
\* by its identity map: id -> the last element bearing it.
Canon(x) ==
    CASE x.t = "arr" ->
            IF StringIds(x.v) # {}
            THEN [t |-> "ids",
                  v |-> [id \in StringIds(x.v) |-> Canon(LastBearing(x.v, id))]]
            ELSE JArr([i \in 1..Len(x.v) |-> Canon(x.v[i])])
      [] x.t = "obj" -> JObj([k \in DOMAIN x.v |-> Canon(x.v[k])])
      [] OTHER -> x

\* C2 as stated: when no pre-filtering takes place, a missing result means
\* that source and dest are structurally equal.
C2_NoneMeansEqual ==
    (Done /\ ~PreFiltered /\ result = Ok(None)) => source_value = dest_value

\* C2 as amended: when no pre-filtering takes place, a missing result means
\* that source and dest are structurally equal once every array holding an
\* object with a string id is read as its identity map (id -> the last
\* element bearing the id; the order of the elements, the elements without a
\* string id and the earlier bearers of a repeated id are disregarded).
C2_NoneMeansEqualUpToIdentity ==
    (Done /\ ~PreFiltered /\ result = Ok(None))
        => Canon(source_value) = Canon(dest_value)

\* C2's case: no result although the two values differ.
C2_Witness ==
    /\ Done /\ ~PreFiltered /\ result = Ok(None)
    /\ source_value # dest_value

\* C3: a difference is detected from source to dest exactly when one is
\* detected from dest to source.
C3_Symmetric ==
    Done => (result.val.some
                <=> Records(config_type, dest_value, source_value) # <<>>)

\* C3's case: a detected difference between an array with an identity map
\* and an array without one, where the two directions take different
\* branches of diff_arrays.
C3_Witness ==
    /\ Done /\ result.tag = "Ok" /\ result.val.some
    /\ BothArrays
    /\ StringIds(source_value.v) # {}
    /\ StringIds(dest_value.v) = {}
    /\ Len(dest_value.v) > 0

\* The top-level element x is one the pre-filter is to drop: an object whose
\* `name` is a string that starts with "SUPABASE_".
Reserved(x) ==
    /\ x.t = "obj"
    /\ "name" \in DOMAIN x.v
    /\ x.v["name"].t = "str"
    /\ Len(x.v["name"].v) >= 9
    /\ SubSeq(x.v["name"].v, 1, 9) = "SUPABASE_"

Retained(arr) == SelectSeq(arr, LAMBDA x : ~Reserved(x))

ShowsPrefix(r) ==
    contains(r.source_value, "SUPABASE_") \/ contains(r.dest_value, "SUPABASE_")

\* C4 as stated: for category "Secrets", whatever the two values, no record
\* has a source_value or dest_value that contains "SUPABASE_".
C4_NoPrefixInRecords ==
    (Done /\ config_type = "Secrets")
        => \A r \in Range(Diffs) : ~ShowsPrefix(r)

\* C4 as amended: for category "Secrets" with source and dest both arrays, a
\* record's source_value or dest_value contains "SUPABASE_" only if the
\* compact rendering of an element that the pre-filter retains (a top-level
\* element that is not an object whose name starts with "SUPABASE_")
\* contains it.
C4_PrefixOnlyFromRetained ==
    (Done /\ PreFiltered)
        => \A r \in Range(Diffs) :
              ShowsPrefix(r)
                 => \E x \in Range(Retained(source_value.v))
                             \cup Range(Retained(dest_value.v)) :
                       contains(to_string(x), "SUPABASE_")

\* C4's case: a secret list with reserved entries that differ between the
\* two sides and a user's secret that differs too; the records show no
\* reserved prefix.
C4_Witness ==
    /\ Done /\ PreFiltered /\ Diffs # <<>>
    /\ \E x \in Range(source_value.v), y \in Range(dest_value.v) :
          Reserved(x) /\ Reserved(y) /\ x # y
    /\ \A r \in Range(Diffs) : ~ShowsPrefix(r)

\* C5: for category "Secrets" with two arrays, the records are those that a
\* category without pre-filter yields on the two arrays with every reserved
\* top-level element removed, the others in their order.
C5_FilterThenReconcile ==
    (Done /\ PreFiltered)
        => SameRecords(Diffs,
                       Records("Auth", JArr(Retained(source_value.v)),
                               JArr(Retained(dest_value.v))))

\* C5's case: a reserved element precedes a retained one in source, so that
\* the retained one is reported at its position in the filtered array, and
\* the reserved element bears an id, so that the unfiltered array would have
\* been reconciled by identity.
C5_Witness ==
    /\ Done /\ PreFiltered
    /\ Len(source_value.v) = 2
    /\ Reserved(source_value.v[1]) /\ has_string_id(source_value.v[1])
    /\ ~Reserved(source_value.v[2])
    /\ Len(dest_value.v) = 0
    /\ Diffs = <<DiffEntry("[0]", format_value(source_value.v[2]), "null")>>

\* C6: the category selects the pre-filter and nothing else.  Two categories
\* other than "Secrets" yield the same records, and "Secrets" yields the
\* records of any other category when source or dest is not an array.
C6_CategoryOnlySelectsFilter ==
    (Done /\ ~PreFiltered)
        => \A c \in {"secrets", "SECRETS", "Auth"} :
              SameRecords(Diffs, Records(c, source_value, dest_value))

\* C6's case: the category "secrets" on two secret lists, where the
\* pre-filter of "Secrets" would have changed the records.
C6_Witness ==
    /\ Done /\ config_type = "secrets" /\ BothArrays
    /\ ~SameRecords(Diffs, Records("Secrets", source_value, dest_value))

\* C6's second case: the category "Secrets" with an array on one side only.
C6_WitnessSecretsNoArray ==
    /\ Done /\ config_type = "Secrets"
    /\ is_array(source_value) /\ ~is_array(dest_value)
    /\ Diffs # <<>>

\* C7: json_diff is total and never fails: on the inputs of a call that has
\* not returned yet it has a value, which is Ok, under every iteration order,
\* and a call that has returned did not return Err.
C7_Total ==
    /\ pc = "call"
          => \A so \in HashOrders, do \in HashOrders :
                json_diff(config_type, source_value, dest_value, so, do).tag = "Ok"
    /\ Done => result.tag = "Ok"

\* C7's case: two values of mismatched shape.
C7_Witness ==
    /\ Done /\ result.tag = "Ok"
    /\ \/ is_array(source_value) /\ is_object(dest_value)
       \/ ~is_array(source_value) /\ ~is_object(source_value)
            /\ is_object(dest_value)

\* C8: json_diff returns Some exactly when there is a record; the
\* ProjectConfig then bears the category as its name and holds the records;
\* otherwise json_diff returns None.
C8_SomeIffRecords ==
    Done =>
        /\ result.tag = "Ok"
        /\ result.val.some
              <=> Records(config_type, source_value, dest_value) # <<>>
        /\ result.val.some
              => /\ result.val.val.name = config_type
                 /\ result.val.val.diffs # <<>>
                 /\ SameRecords(result.val.val.diffs,
                                Records(config_type, source_value, dest_value))
        /\ ~result.val.some => result.val = None

\* C8's case: a result for the category "Secrets".
C8_Witness ==
    /\ Done /\ result.tag = "Ok" /\ result.val.some
    /\ result.val.val.name = "Secrets"

\* C8's other case: no result.
C8_WitnessNone ==
    Done /\ result = Ok(None) /\ source_value # dest_value

IsScalar(x) == x.t \notin {"arr", "obj"}

\* Source and dest are two objects whose values are scalars.
ScalarObjects ==
    /\ source_value.t = "obj" /\ dest_value.t = "obj"
    /\ \A k \in DOMAIN source_value.v : IsScalar(source_value.v[k])
    /\ \A k \in DOMAIN dest_value.v : IsScalar(dest_value.v[k])

\* The keys of two scalar-valued objects that C9 gives a record.
ChangedKeys ==
    LET s == source_value.v
        d == dest_value.v
    IN {k \in (DOMAIN s) \cup (DOMAIN d) :
           \/ k \notin DOMAIN s
           \/ k \notin DOMAIN d
           \/ s[k] # d[k]}

\* The (source_value, dest_value) that C9 gives the record of key k.
ExpectedPair(k) ==
    LET s == source_value.v
        d == dest_value.v
    IN IF k \notin DOMAIN d THEN <<format_value(s[k]), "null">>
       ELSE IF k \notin DOMAIN s THEN <<"null", format_value(d[k])>>
       ELSE <<format_value(s[k]), format_value(d[k])>>

\* C9: two objects with scalar values yield one record per key that is on
\* one side only or has unequal values -- a removal (dest_value "null"), an
\* addition (source_value "null") or both rendered values -- and no other
\* record.
C9_ObjectRecords ==
    (Done /\ ScalarObjects) =>
        /\ Len(Diffs) = Cardinality(ChangedKeys)
        /\ \A k \in ChangedKeys :
              Cardinality({i \in 1..Len(Diffs) :
                  <<Diffs[i].source_value, Diffs[i].dest_value>> = ExpectedPair(k)})
              = Cardinality({j \in ChangedKeys : ExpectedPair(j) = ExpectedPair(k)})

\* C9's case: a removed key, an added key, a changed key and an equal key
\* in one comparison.
C9_Witness ==
    /\ Done /\ ScalarObjects /\ Len(Diffs) = 2
    /\ \E k \in DOMAIN source_value.v : k \notin DOMAIN dest_value.v
    /\ \E k \in DOMAIN dest_value.v : k \notin DOMAIN source_value.v
    /\ \E k \in (DOMAIN source_value.v) \cap (DOMAIN dest_value.v) :
          source_value.v[k] = dest_value.v[k]

\* C9's case with a change: a removed key, an added key and a changed key.
C9_WitnessChange ==
    /\ Done /\ ScalarObjects /\ Len(Diffs) = 3
    /\ \E k \in DOMAIN source_value.v : k \notin DOMAIN dest_value.v
    /\ \E k \in DOMAIN dest_value.v : k \notin DOMAIN source_value.v
    /\ \E k \in (DOMAIN source_value.v) \cap (DOMAIN dest_value.v) :
          source_value.v[k] # dest_value.v[k]

\* The pair of arrays that the call reconciles, and the path it does so at:
\* the two values themselves (after the pre-filter, if it applies) at the
\* empty path, or the arrays below the one key "cfg" of two objects.
ArraysAtCfg ==
    /\ source_value.t = "obj" /\ dest_value.t = "obj"
    /\ DOMAIN source_value.v = {"cfg"} /\ DOMAIN dest_value.v = {"cfg"}
    /\ source_value.v["cfg"].t = "arr" /\ dest_value.v["cfg"].t = "arr"

ArrPath == IF BothArrays THEN "" ELSE "cfg"

ArrSrc ==
    IF BothArrays
    THEN IF PreFiltered THEN Retained(source_value.v) ELSE source_value.v
    ELSE source_value.v["cfg"].v

ArrDst ==
    IF BothArrays
    THEN IF PreFiltered THEN Retained(dest_value.v) ELSE dest_value.v
    ELSE dest_value.v["cfg"].v

\* Both arrays of the call yield an identity map.
IdentityCase ==
    /\ BothArrays \/ ArraysAtCfg
    /\ StringIds(ArrSrc) # {}
    /\ StringIds(ArrDst) # {}

Bearing(arr, id) ==
    {arr[i] : i \in {j \in 1..Len(arr) :
                        /\ arr[j].t = "obj"
                        /\ "id" \in DOMAIN arr[j].v
                        /\ arr[j].v["id"] = JStr(id)}}

IdPath(id) == IF ArrPath = "" THEN "id:" \o id ELSE ArrPath \o ".id:" \o id

Compare(path, a, b) == diff_values(path, a, b, StrUniverse, StrUniverse)

Perms(s) ==
    {[i \in 1..Len(s) |-> s[p[i]]] :
        p \in {q \in [1..Len(s) -> 1..Len(s)] :
                  \A i, j \in 1..Len(s) : q[i] = q[j] => i = j}}

\* The records of the set formulation, where e and f give the source
\* element and the dest element of each id.
SetFormulation(e, f) ==
    LET S == DOMAIN e
        D == DOMAIN f
        ids == SelectSeq(StrUniverse, LAMBDA id : id \in S \cup D)
    IN Flatten([i \in 1..Len(ids) |->
         IF ids[i] \in S \cap D
         THEN Compare(IdPath(ids[i]), e[ids[i]], f[ids[i]])
         ELSE IF ids[i] \in S
              THEN <<DiffEntry(IdPath(ids[i]), format_value(e[ids[i]]), "null")>>
              ELSE <<DiffEntry(IdPath(ids[i]), "null", format_value(f[ids[i]]))>>])

\* The ways to name, for each id of arr, an element of arr that bears it.
Bearers(arr) ==
    {e \in [StringIds(arr) -> Range(arr)] :
        \A id \in StringIds(arr) : e[id] \in Bearing(arr, id)}

\* C10 as stated: the records of an identity-based reconciliation are those
\* of the set formulation over the ids of the two arrays (with, for each id,
\* an element that bears it), and they do not depend on the positions of the
\* elements in either array.
C10_SetFormulation ==
    (Done /\ IdentityCase) =>
        /\ \E e \in Bearers(ArrSrc), f \in Bearers(ArrDst) :
              SameRecords(Diffs, SetFormulation(e, f))
        /\ \A p \in Perms(ArrSrc) :
              SameRecords(Diffs, Compare(ArrPath, JArr(p), JArr(ArrDst)))
        /\ \A q \in Perms(ArrDst) :
              SameRecords(Diffs, Compare(ArrPath, JArr(ArrSrc), JArr(q)))

\* The records of the set formulation, with the last bearer of each id.
SetFormulationLast ==
    SetFormulation([id \in StringIds(ArrSrc) |-> LastBearing(ArrSrc, id)],
                   [id \in StringIds(ArrDst) |-> LastBearing(ArrDst, id)])

\* The permutation p of arr keeps the last bearer of every id.
KeepsLast(arr, p) ==
    \A id \in StringIds(arr) : LastBearing(p, id) = LastBearing(arr, id)

\* C10 as amended: with S and D the sets of string ids of source and dest
\* and, for each id, the last element of its array that bears it, the
\* records are exactly those of compare(<path>.id:<id>, source element, dest
\* element) for each id in both, one removal for each id in S only and one
\* addition for each id in D only; they do not depend on the positions of the
\* elements as long as each id keeps its last bearer (in particular when no
\* id repeats within an array).
C10_SetFormulationLast ==
    (Done /\ IdentityCase) =>
        /\ SameRecords(Diffs, SetFormulationLast)
        /\ \A p \in Perms(ArrSrc) :
              KeepsLast(ArrSrc, p)
                 => SameRecords(Diffs, Compare(ArrPath, JArr(p), JArr(ArrDst)))
        /\ \A q \in Perms(ArrDst) :
              KeepsLast(ArrDst, q)
                 => SameRecords(Diffs, Compare(ArrPath, JArr(ArrSrc), JArr(q)))

\* C10's case: below the key "cfg", an id matched across different
\* positions with changed content, and an id on the source side only.
C10_Witness ==
    /\ Done /\ IdentityCase /\ ArraysAtCfg
    /\ Len(ArrSrc) = 2 /\ Len(ArrDst) = 1
    /\ has_string_id(ArrSrc[1]) /\ has_string_id(ArrSrc[2])
    /\ ArrSrc[2].v["id"] = ArrDst[1].v["id"]
    /\ ArrSrc[1].v["id"] # ArrDst[1].v["id"]
    /\ ArrSrc[2] # ArrDst[1]
    /\ Len(Diffs) = 2

\* The call reconciles a pair of arrays (see ArrPath, ArrSrc, ArrDst).
ArrayCase == BothArrays \/ ArraysAtCfg

IndexPath(i) == ArrPath \o "[" \o ToString(i) \o "]"

\* Exactly one of the two arrays yields an identity map.
OneSidedCase ==
    /\ ArrayCase
    /\ (StringIds(ArrSrc) = {}) # (StringIds(ArrDst) = {})

OnlySourceHasIds == StringIds(ArrSrc) # {}

\* The array that has the ids.
IdSide == IF OnlySourceHasIds THEN ArrSrc ELSE ArrDst

\* The record C11 gives the element x of the side with ids.
WholeRecord(x) ==
    IF OnlySourceHasIds
    THEN DiffEntry(IdPath(x.v["id"].v), format_value(x), "null")
    ELSE DiffEntry(IdPath(x.v["id"].v), "null", format_value(x))

\* C11 as stated: when exactly one array yields an identity map, there is
\* one record per element of that array -- a removal if it is source, an
\* addition if it is dest -- each at the path id:<id> of its element, and no
\* record at the path `length`.
C11_RecordPerElement ==
    (Done /\ OneSidedCase) =>
        /\ Len(Diffs) = Len(IdSide)
        /\ \A i \in 1..Len(IdSide) :
              /\ has_string_id(IdSide[i])
              /\ WholeRecord(IdSide[i]) \in Range(Diffs)
        /\ \A r \in Range(Diffs) : r.key # "length"

\* C11 as amended: when exactly one array yields an identity map, there is
\* one record per distinct string id of that array -- a removal if it is
\* source, an addition if it is dest -- at the path id:<id> (prefixed by
\* <path>. when the path is not empty), rendering the last element that bears
\* the id; the elements without a string id, the earlier bearers of a
\* repeated id and the elements of the other array get no record, and no
\* record has the path `length`.
C11_RecordPerId ==
    (Done /\ OneSidedCase) =>
        /\ Len(Diffs) = Cardinality(StringIds(IdSide))
        /\ Range(Diffs) =
              {WholeRecord(LastBearing(IdSide, id)) : id \in StringIds(IdSide)}
        /\ \A r \in Range(Diffs) : r.key # "length"

\* C11's case: below the key "cfg", a source of two elements with different
\* ids against a dest without ids that is not empty.
C11_Witness ==
    /\ Done /\ OneSidedCase /\ ArraysAtCfg /\ OnlySourceHasIds
    /\ Cardinality(StringIds(ArrSrc)) = 2
    /\ Len(ArrDst) > 0
    /\ Len(Diffs) = 2

\* C11's case where the elements outnumber the ids: only dest has ids, and
\* it holds an element without a string id.
C11_WitnessIdLess ==
    /\ Done /\ OneSidedCase /\ ~OnlySourceHasIds
    /\ \E i \in 1..Len(ArrDst) : ~has_string_id(ArrDst[i])
    /\ Len(Diffs) = 1

\* Neither array holds an object.
NoObjects ==
    /\ \A i \in 1..Len(ArrSrc) : ArrSrc[i].t # "obj"
    /\ \A i \in 1..Len(ArrDst) : ArrDst[i].t # "obj"

MaxOf(a, b) == IF a >= b THEN a ELSE b

\* The indexes (from 0) at which C12 gives a record.
ChangedIndexes ==
    {i \in 0..(MaxOf(Len(ArrSrc), Len(ArrDst)) - 1) :
        \/ i + 1 > Len(ArrSrc)
        \/ i + 1 > Len(ArrDst)
        \/ ArrSrc[i + 1] # ArrDst[i + 1]}

\* The record C12 gives the index i.
IndexRecord(i) ==
    DiffEntry(IndexPath(i),
              IF i + 1 <= Len(ArrSrc) THEN format_value(ArrSrc[i + 1]) ELSE "null",
              IF i + 1 <= Len(ArrDst) THEN format_value(ArrDst[i + 1]) ELSE "null")

RecordsPerIndex ==
    /\ Len(Diffs) = Cardinality(ChangedIndexes)
    /\ Range(Diffs) = {IndexRecord(i) : i \in ChangedIndexes}

\* C12 as stated: two arrays in which no element is an object yield one
\* record at <path>[i] for each index i at which the elements are unequal or
\* only one side has an element, and no other record.
C12_RecordPerIndex ==
    (Done /\ ArrayCase /\ NoObjects) => RecordsPerIndex

\* No index holds an array on both sides.
NoArrayPair ==
    \A n \in 1..Len(ArrSrc) :
        n <= Len(ArrDst) => ~(ArrSrc[n].t = "arr" /\ ArrDst[n].t = "arr")

\* C12 as amended: two arrays in which no element is an object and no index
\* holds an array on both sides yield one record at <path>[i] for each index
\* i below max(len(source), len(dest)) at which the elements are unequal
\* (both rendered) or only one side has an element (the other rendered as
\* "null"); equal positions give nothing and there is no length record.
C12_RecordPerIndexNoArrayPair ==
    (Done /\ ArrayCase /\ NoObjects /\ NoArrayPair) => RecordsPerIndex

\* C12's case: an equal position, an unequal one, and a longer source.
C12_Witness ==
    /\ Done /\ ArrayCase /\ NoObjects /\ NoArrayPair
    /\ Len(ArrSrc) = 2 /\ Len(ArrDst) = 1
    /\ ArrSrc[1] # ArrDst[1]
    /\ Len(Diffs) = 2

\* C12's case below the key "cfg".
C12_WitnessCfg ==
    /\ Done /\ ArraysAtCfg /\ NoObjects /\ NoArrayPair
    /\ Len(ArrSrc) = 2 /\ Len(ArrDst) = 1
    /\ Diffs = <<DiffEntry("cfg[0]", "1", "2"), DiffEntry("cfg[1]", "2", "null")>>

\* Neither array yields an identity map.
IndexCase ==
    /\ ArrayCase
    /\ StringIds(ArrSrc) = {}
    /\ StringIds(ArrDst) = {}

\* The record r is at a path below p.
Below(r, p) == Len(r.key) > Len(p) /\ SubSeq(r.key, 1, Len(p)) = p

\* C13: in the index fallback, two unequal objects at index i give exactly
\* one record at <path>[i], with the complete rendering of each object, and
\* no record below that path; two equal objects give no record.
C13_WholeObject ==
    (Done /\ IndexCase) =>
        \A n \in 1..Len(ArrSrc) :
            (n <= Len(ArrDst) /\ ArrSrc[n].t = "obj" /\ ArrDst[n].t = "obj")
               => LET p == IndexPath(n - 1)
                      at == {i \in 1..Len(Diffs) : Diffs[i].key = p}
                  IN /\ \A r \in Range(Diffs) : ~Below(r, p)
                     /\ ArrSrc[n] = ArrDst[n] => at = {}
                     /\ ArrSrc[n] # ArrDst[n]
                           => /\ Cardinality(at) = 1
                              /\ \A i \in at :
                                    /\ Diffs[i].source_value = to_string(ArrSrc[n])
                                    /\ Diffs[i].dest_value = to_string(ArrDst[n])

\* C13's case: unequal objects at the second index, equal ones at the first.
C13_Witness ==
    /\ Done /\ IndexCase
    /\ Len(ArrSrc) = 2 /\ Len(ArrDst) = 2
    /\ ArrSrc[1].t = "obj" /\ ArrSrc[1] = ArrDst[1]
    /\ ArrSrc[2].t = "obj" /\ ArrDst[2].t = "obj" /\ ArrSrc[2] # ArrDst[2]
    /\ Len(Diffs) = 1 /\ Diffs[1].key = "[1]"

\* C13's case below the key "cfg".
C13_WitnessCfg ==
    /\ Done /\ IndexCase /\ ArraysAtCfg
    /\ Diffs = <<DiffEntry("cfg[0]", "{\"a\":1}", "{\"a\":2}")>>

\* Both values of the call are objects.
BothObjects == source_value.t = "obj" /\ dest_value.t = "obj"

\* The ids (of an identity-reconciled array) or keys (of an object) that
\* only the dest side of the call's container has.
DestOnly ==
    IF IdentityCase THEN StringIds(ArrDst) \ StringIds(ArrSrc)
    ELSE IF BothObjects /\ ~ArraysAtCfg
         THEN (DOMAIN dest_value.v) \ (DOMAIN source_value.v)
         ELSE {}

\* The record r is the addition of an id or a key that only dest has.
DestOnlyAddition(r) ==
    /\ r.source_value = "null"
    /\ \E x \in DestOnly : r.key = (IF IdentityCase THEN IdPath(x) ELSE x)

\* C19: within the comparison of two identity-reconciled arrays or of two
\* objects, every record produced while iterating the source side (for a
\* matched id or common key, and every removal) comes before every addition
\* record for an id or key that only dest has.
C19_SourceFirst ==
    (Done /\ (IdentityCase \/ BothObjects)) =>
        \A i, j \in 1..Len(Diffs) :
            (DestOnlyAddition(Diffs[i]) /\ ~DestOnlyAddition(Diffs[j])) => j < i

\* C19's case for arrays: a change below a matched id and an addition.
C19_Witness ==
    /\ Done /\ IdentityCase
    /\ Len(Diffs) = 2
    /\ ~DestOnlyAddition(Diffs[1]) /\ Diffs[1].key = "id:a.v"
    /\ DestOnlyAddition(Diffs[2])

\* C19's case for objects: a change, a removal and an addition.
C19_WitnessObject ==
    /\ Done /\ BothObjects /\ ~ArraysAtCfg
    /\ Len(Diffs) = 3
    /\ \E i \in 1..2 : Diffs[i].dest_value = "null"
    /\ \E i \in 1..2 : Diffs[i].source_value # "null" /\ Diffs[i].dest_value # "null"
    /\ DestOnlyAddition(Diffs[3])

RECURSIVE ArrayFree(_)
\* A value built of scalars and objects only.
ArrayFree(x) ==
    /\ x.t # "arr"
    /\ x.t = "obj" => \A k \in DOMAIN x.v : ArrayFree(x.v[k])

\* The path C20 gives a difference reached through the keys ks.
KeyPath(ks) == IF ks = <<>> THEN "root" ELSE Join(ks, ".")

RECURSIVE DifferenceKeys(_, _, _)
\* The key sequences at which two array-free values differ: a key that one
\* object lacks, or two values below common keys that are unequal and not
\* both objects.
DifferenceKeys(ks, a, b) ==
    IF a = b THEN {}
    ELSE IF a.t = "obj" /\ b.t = "obj"
         THEN UNION {IF k \in DOMAIN a.v /\ k \in DOMAIN b.v
                     THEN DifferenceKeys(Append(ks, k), a.v[k], b.v[k])
                     ELSE {Append(ks, k)} :
                        k \in (DOMAIN a.v) \cup (DOMAIN b.v)}
         ELSE {ks}

\* C20: a difference reached through the object keys k1, ..., kn (n >= 1) is
\* reported at the path k1.k2. ... .kn, and a difference directly between the
\* two top-level values at the path `root`.
C20_KeyPaths ==
    (Done /\ ArrayFree(source_value) /\ ArrayFree(dest_value)) =>
        {r.key : r \in Range(Diffs)}
            = {KeyPath(ks) : ks \in DifferenceKeys(<<>>, source_value, dest_value)}

-----------------------------------------------------------------------------
(* Properties of preview_handler.                                          *)

PreviewDone == hpc = "done"

HasToken == session[ACCESS_TOKEN_KEY].some

\* The names of the requested categories in the order of the handler's blocks.
RequestedInOrder ==
    SelectSeq([i \in DOMAIN Services |-> Services[i].name],
              LAMBDA n : n \in params.requested)

\* Every requested category has its entry in config_json.
AllFetched == Len(config_json) = Len(RequestedInOrder)

\* The entry i of config_json holds a text that is not JSON.
MalformedEntry(i) ==
    from_str(config_json[i][2]).tag = "Err" \/ from_str(config_json[i][3]).tag = "Err"

\* The config of the entry i of config_json, if its diff is not empty.
ConfigOf(i) ==
    LET d == Records(config_json[i][1], from_str(config_json[i][2]).val,
                     from_str(config_json[i][3]).val)
    IN IF d = <<>> THEN <<>> ELSE <<ProjectConfig(config_json[i][1], d)>>

\* The configs of all the entries of config_json, in order.
ExpectedConfigs == Flatten([i \in 1..Len(config_json) |-> ConfigOf(i)])

\* C14: if a fetched snapshot fails to parse, the request is answered with
\* 400 Bad Request and the engine has not been invoked at any point of the
\* request, whichever category the malformed snapshot belongs to.
C14_NoEngineBeforeParseError ==
    (PreviewDone /\ AllFetched /\ \E i \in 1..Len(config_json) : MalformedEntry(i))
        => /\ response.status = BAD_REQUEST
           /\ engine_log = <<>>

\* C15: a failing session.insert does not fail the request: once every
\* snapshot is fetched and parses, the request ends with the successful
\* response whose configs are those of the fetched snapshots, every category
\* has been handed to the engine, whether or not an insert failed.
C15_InsertFailureHarmless ==
    (PreviewDone /\ AllFetched /\ \A i \in 1..Len(config_json) : ~MalformedEntry(i))
        => /\ response = PreviewResponse(ExpectedConfigs)
           /\ engine_log = RequestedInOrder

\* C15's case: the insert of the first of two categories failed (nothing is
\* stored under its name), the second was processed and stored, and the
\* response is the successful one.
C15_Witness ==
    /\ PreviewDone /\ response.status = STATUS_OK
    /\ Len(RequestedInOrder) = 2 /\ Len(engine_log) = 2
    /\ stderr = 1
    /\ ~session[RequestedInOrder[1]].some
    /\ session[RequestedInOrder[2]].some
    /\ Len(response.configs) = 2

\* C16: while the session holds no access token, a request that asks for a
\* category sends no HTTP request; its first call of mgmt_api_get ends it,
\* and it ends in an error.
C16_RejectedBeforeFetch ==
    (hpc # "idle" /\ ~HasToken /\ params.requested # {})
        => /\ http_log = <<>>
           /\ hpc \in {"fetch", "done"}
           /\ hpc = "fetch" => (cat_i = next_requested(1) /\ ~source_config.some)
           /\ PreviewDone => response.status # STATUS_OK

\* C16's case: a request for two categories without a token has ended.
C16_Witness ==
    /\ PreviewDone /\ ~HasToken
    /\ Cardinality(params.requested) = 2
    /\ response.status = INTERNAL_SERVER_ERROR
    /\ http_log = <<>>

\* The URLs of the two GETs of a category.
UrlsOf(i) ==
    <<constructed_url("/projects/" \o params.source_id \o Services[i].path),
      constructed_url("/projects/" \o params.dest_id \o Services[i].path)>>

\* The URLs of the GETs of the requested categories, in order.
ExpectedUrls ==
    Flatten([i \in DOMAIN Services |->
               IF Services[i].name \in params.requested THEN UrlsOf(i)
               ELSE <<>>])

\* The config of the k-th requested category, from the texts the management
\* API served, if its diff is not empty.
ServedConfig(k) ==
    LET d == Records(RequestedInOrder[k],
                     from_str(http_log[2 * k - 1].reply.text).val,
                     from_str(http_log[2 * k].reply.text).val)
    IN IF d = <<>> THEN <<>> ELSE <<ProjectConfig(RequestedInOrder[k], d)>>

\* C17: a request that ends successfully has invoked the engine once per
\* requested category, in the order Auth, Postgrest, EdgeFunctions, Secrets,
\* Postgres; its configs are the requested categories whose diff is not
\* empty, each once, in that order; and it has sent the two GETs of each
\* requested category and none for any other.
C17_OncePerRequested ==
    (PreviewDone /\ response.status = STATUS_OK) =>
        /\ engine_log = RequestedInOrder
        /\ [i \in 1..Len(http_log) |-> http_log[i].url] = ExpectedUrls
        /\ response.configs
              = Flatten([k \in 1..Len(RequestedInOrder) |-> ServedConfig(k)])
        /\ \A i, j \in 1..Len(response.configs) :
              response.configs[i].name = response.configs[j].name => i = j

\* C17's case: two categories requested, Secrets before Postgres, of which
\* only the second has a diff that is not empty.
C17_Witness ==
    /\ PreviewDone /\ response.status = STATUS_OK
    /\ params.requested = {"Postgres", "Secrets"}
    /\ engine_log = <<"Secrets", "Postgres">>
    /\ Len(http_log) = 4
    /\ Len(response.configs) = 1 /\ response.configs[1].name = "Postgres"

\* A GET that failed: no response, a status that is not a success, or a body
\* that cannot be read.
FailedReply(r) ==
    r.kind = "unreachable" \/ ~is_success(r.status) \/ ~r.readable

\* C18: a failed GET is the last one of its request, which is answered with
\* 500 and a message that carries the status and the body of the response
\* if one arrived; no snapshot has been parsed, the engine has not been
\* called and nothing has been written to the session.
C18_FetchFailureAborts ==
    \A i \in 1..Len(http_log) :
        FailedReply(http_log[i].reply) =>
            /\ i = Len(http_log)
            /\ PreviewDone
            /\ response.status = INTERNAL_SERVER_ERROR
            /\ (http_log[i].reply.kind = "response"
                  /\ ~is_success(http_log[i].reply.status))
                  => contains(response.error, ToString(http_log[i].reply.status))
            /\ (http_log[i].reply.kind = "response"
                  /\ ~is_success(http_log[i].reply.status)
                  /\ http_log[i].reply.readable)
                  => contains(response.error, http_log[i].reply.text)
            /\ parsed = 0
            /\ engine_log = <<>>
            /\ \A k \in ServiceNames : ~session[k].some
            /\ Len(config_json) = (i - 1) \div 2

\* C18's case: the first category is fetched, the first GET of the second is
\* answered with 503 and a body.
C18_Witness ==
    /\ PreviewDone
    /\ Len(RequestedInOrder) = 2
    /\ Len(http_log) = 3
    /\ http_log[3].reply.kind = "response"
    /\ http_log[3].reply.status = 503 /\ http_log[3].reply.readable
    /\ Len(config_json) = 1
    /\ response.status = INTERNAL_SERVER_ERROR

\* C18's case for a request that does not get through.
C18_WitnessUnreachable ==
    /\ PreviewDone
    /\ Len(http_log) = 2
    /\ http_log[2].reply.kind = "unreachable"
    /\ response.status = INTERNAL_SERVER_ERROR

-----------------------------------------------------------------------------
(* Further properties of the engine.                                       *)

\* C21: within one result no two change records have the same key (path),
\* for every category, source and dest, objects with empty keys included.
C21_UniquePaths ==
    Done => \A i, j \in 1..Len(Diffs) : Diffs[i].key = Diffs[j].key => i = j

\* C22: every change record shows a visible change: its source_value text
\* differs from its dest_value text, for every category, source and dest.
C22_VisibleChange ==
    Done => \A r \in Range(Diffs) : r.source_value # r.dest_value

RECURSIVE StringLeaves(_)
\* The strings that occur as values anywhere in x.
StringLeaves(x) ==
    IF x.t = "str" THEN {x.v}
    ELSE IF x.t = "arr" THEN UNION {StringLeaves(x.v[i]) : i \in 1..Len(x.v)}
    ELSE IF x.t = "obj" THEN UNION {StringLeaves(x.v[k]) : k \in DOMAIN x.v}
    ELSE {}

\* C22 as amended: a record's source_value text differs from its dest_value
\* text unless both are "null" (null, the string "null" and a missing side
\* render alike) or both are the content of a string of the input (a string
\* renders bare, like the non-string value with that text).
C22_AlikeOnlyNullOrString ==
    Done => \A r \in Range(Diffs) :
                r.source_value = r.dest_value
                   => \/ r.source_value = "null"
                      \/ r.source_value \in StringLeaves(source_value)
                                              \cup StringLeaves(dest_value)

\* C22's case: the number 1 against the string "1" gives a record with the
\* text 1 on both sides.
C22_Witness ==
    /\ Done
    /\ source_value = JNum(1) /\ dest_value = JStr("1")
    /\ Diffs = <<DiffEntry("root", "1", "1")>>

\* C22's case for records whose texts differ: two numbers.
C22_WitnessVisible ==
    /\ Done
    /\ source_value = JNum(1) /\ dest_value = JNum(2)
    /\ Diffs = <<DiffEntry("root", "1", "2")>>

\* What identity-based reconciliation keeps of an array: the last element
\* bearing each distinct string id, here in the order of StrUniverse; nothing
\* of an array without such an element.
LastBearers(arr) ==
    LET ids == SelectSeq(StrUniverse, LAMBDA id : id \in StringIds(arr))
    IN [i \in 1..Len(ids) |-> LastBearing(arr, ids[i])]

\* At least one of the two arrays of the call yields an identity map.
SomeIdentityMap ==
    /\ ArrayCase
    /\ StringIds(ArrSrc) # {} \/ StringIds(ArrDst) # {}

\* C23: when at least one of the two arrays handed to the reconciliation
\* (after the Secrets pre-filter, where it applies) yields an identity map,
\* the records are those of comparing, for each side, the last bearers of
\* its distinct string ids alone: the elements without a string id and the
\* earlier bearers of a repeated id have no effect on the records.
C23_OnlyLastBearers ==
    (Done /\ SomeIdentityMap) =>
        SameRecords(Diffs, Compare(ArrPath, JArr(LastBearers(ArrSrc)),
                                   JArr(LastBearers(ArrDst))))

\* C23's case: source repeats an id with different elements, dest bears
\* another id, and there are records.
C23_Witness ==
    /\ Done /\ SomeIdentityMap
    /\ Len(ArrSrc) = 2 /\ Cardinality(StringIds(ArrSrc)) = 1
    /\ has_string_id(ArrSrc[1]) /\ has_string_id(ArrSrc[2])
    /\ ArrSrc[1] # ArrSrc[2]
    /\ StringIds(ArrDst) # {} /\ StringIds(ArrDst) # StringIds(ArrSrc)
    /\ Len(Diffs) = 2

\* C23's case: dest holds an element without a string id next to one with,
\* source has no identity map and is not empty.
C23_WitnessIdLess ==
    /\ Done /\ SomeIdentityMap
    /\ StringIds(ArrSrc) = {} /\ Len(ArrSrc) > 0
    /\ Len(ArrDst) = 2 /\ Cardinality(StringIds(ArrDst)) = 1
    /\ \E i \in 1..2 : ~has_string_id(ArrDst[i])
    /\ Len(Diffs) = 1

-----------------------------------------------------------------------------
(* Further properties of preview_handler.                                  *)

\* The request ended because the session store did not answer.
SessionStoreFailed ==
    PreviewDone /\ response.status # STATUS_OK
    /\ contains(response.error, "SessionError")

\* C24: a request that asks for a category while the session holds no access
\* token is answered with 401 and the message "Unauthorized".
C24_Unauthorized401 ==
    (PreviewDone /\ ~HasToken /\ params.requested # {} /\ ~SessionStoreFailed)
        => /\ response.status = UNAUTHORIZED
           /\ response.error = "Unauthorized"

-----------------------------------------------------------------------------
(* Properties of callback_handler.                                         *)

\* The session holds the verifier v and the CSRF secret c, as an oauth_data
\* entry or under the two separate keys.
HoldsSecrets(sess, v, c) ==
    \/ sess["oauth_data"] = Some(OAuthSessionData(Some(v), Some(c)))
    \/ /\ sess["pkce_verifier_secret"] = Some(v)
       /\ sess["csrf_token_secret"] = Some(c)

\* The session holds a verifier and a CSRF secret, and the callback's state
\* parameter is that secret.
StateCheckPasses ==
    \E v \in Verifiers, c \in CsrfSecrets :
        HoldsSecrets(session, v, c) /\ c = params.state

\* The step sends a token request.
SendsTokenRequest == http_log' # http_log

\* The step changes the access token of the session.
WritesAccessToken == session'[ACCESS_TOKEN_KEY] # session[ACCESS_TOKEN_KEY]

\* C25: a step of the OAuth handlers sends a token request only if the
\* session holds a verifier and a CSRF secret that the callback's state
\* parameter equals, and changes the session's access token only if moreover
\* the token request it sent was answered with a success status and a
\* parsable body, whose access token it stores; every other step leaves the
\* access token as it was.
C25_TokenOnlyAfterChecks ==
    [][/\ SendsTokenRequest => StateCheckPasses
       /\ WritesAccessToken =>
             /\ StateCheckPasses
             /\ Len(http_log') = Len(http_log) + 1
             /\ LET reply == http_log'[Len(http_log')].reply
                IN /\ reply.kind = "response"
                   /\ is_success(reply.status)
                   /\ reply.parsable
                   /\ session'[ACCESS_TOKEN_KEY] = Some(reply.access_token)]_vars

\* C25's case: a callback has passed its checks, sent one token request and
\* stored the access token of the reply.
C25_Witness ==
    /\ hpc = "done"
    /\ response = Html("Authentication successful!")
    /\ Len(http_log) = 1
    /\ session[ACCESS_TOKEN_KEY] = Some("fresh")

\* C25's case on another path: the state parameter is not the CSRF secret,
\* no token request was sent and the old access token is still there.
C25_WitnessMismatch ==
    /\ hpc = "done"
    /\ response = Html("CSRF token mismatch")
    /\ http_log = <<>>
    /\ session[ACCESS_TOKEN_KEY] = Some("token")

=============================================================================
